---- MODULE Spec2Model ----
(***************************************************************************)
(* Script-analysis service: the two-node workflow graph (graph/nodes.py,   *)
(* graph/workflow.py) and the POST /analyze-script handlers that run it    *)
(* (api/api.py, api/api_2.py).                                             *)
(*                                                                         *)
(* Python values are written as their repr strings ("True", "None",        *)
(* "{}"), a dict is a function whose DOMAIN is the set of its keys, a str  *)
(* is a TLA+ string and a list is a sequence.                              *)
(***************************************************************************)
EXTENDS Integers, Sequences, FiniteSets, TLC

VARIABLES
    pc,             \* position of the caller: "idle", "analysis", "responded", "returned"
    api,            \* who runs the graph: "api" (api.py), "api_2" (api_2.py), "direct", "none"
    save_to_db,     \* query flag of api.py's analyze_script
    temp_file_path, \* local of analyze_script: "None" or the temporary file's name
    files,          \* temporary files that exist on disk
    gpc,            \* node the graph is at: "none", "analyst_agent", "human_feedback",
                    \* "should_continue_or_end", "END", "error", "cancelled"
    form,           \* call form analyst_agent_node is awaiting: 1 run_async, 2 run, 3 direct call
    state,          \* the workflow state mapping of the current run
    analyst_runs,   \* executions of analyst_agent in the current run
    feedback_runs,  \* executions of human_feedback in the current run
    node_in,        \* state handed to the last execution of analyst_agent
    agent_outcome,  \* how the agent invocation of that execution ended
    route_call,     \* the last call of should_continue_or_end: argument, return, state after
    response,       \* HTTP response of the current request
    timed_out,      \* asyncio.TimeoutError was raised in the current request
    db,             \* records of the analyzed_scripts table
    next_id,        \* next identifier the table hands out
    nreq,           \* number of requests received so far
    request,        \* the request being handled: its endpoint and its parameters
    submitted,      \* what POST /save-analysis was sent, by the identifier it was given,
                    \* and whether a delete of that identifier was requested since
    persistence,    \* the persistence call of the current request: "not_called", "saved", "failed"
    attempts,       \* call forms tried in the current execution of analyst_agent, and how each ended
    runs,           \* concurrent workflow runs: node the run is at, reference of the mapping
                    \* it holds, the state it started from, its agent outcome
    heap            \* the state mappings of the concurrent runs, by reference

vars == <<pc, api, save_to_db, temp_file_path, files, gpc, form, state, analyst_runs,
          feedback_runs, node_in, agent_outcome, route_call, response, timed_out, db,
          next_id, nreq, request, submitted, persistence, attempts, runs, heap>>

-----------------------------------------------------------------------------
(* Bounds *)

\* HTTP requests the service receives in one behaviour
MaxRequests == 2
\* longest errors list a caller hands to the graph
MaxInputErrors == 1
\* executions of one node in one run (the graph has a loop-back edge)
MaxNodeRuns == 2
\* requests to the endpoints of the analyzed_scripts table in one behaviour
MaxStoreRequests == 4
\* largest skip of GET /analyzed-scripts
MaxSkip == 1
\* largest limit of GET /analyzed-scripts
MaxLimit == 1
\* requests whose workflow runs are in progress at the same time
MaxRuns == 2

-----------------------------------------------------------------------------
(* Python dict and truth-value primitives *)

EmptyDict == [k \in {} |-> ""]

\* d.get(k, default)
Get(d, k, default) == IF k \in DOMAIN d THEN d[k] ELSE default

\* d[k] = v
Put(d, k, v) == [x \in (DOMAIN d) \cup {k} |-> IF x = k THEN v ELSE d[x]]

\* {**d, **u}
Merge(d, u) == [x \in (DOMAIN d) \cup (DOMAIN u) |-> IF x \in DOMAIN u THEN u[x] ELSE d[x]]

\* bool(v) of a value written as its repr
Truthy(v) == v \notin {"False", "None", "0", "''", "{}", "[]"}

\* sub in s
Contains(s, sub) ==
    \E i \in 1..(Len(s) - Len(sub) + 1) : SubSeq(s, i, i + Len(sub) - 1) = sub

LowerChar(c) ==
    CASE c = "A" -> "a" [] c = "B" -> "b" [] c = "C" -> "c" [] c = "D" -> "d"
      [] c = "E" -> "e" [] c = "F" -> "f" [] c = "G" -> "g" [] c = "H" -> "h"
      [] c = "I" -> "i" [] c = "J" -> "j" [] c = "K" -> "k" [] c = "L" -> "l"
      [] c = "M" -> "m" [] c = "N" -> "n" [] c = "O" -> "o" [] c = "P" -> "p"
      [] c = "Q" -> "q" [] c = "R" -> "r" [] c = "S" -> "s" [] c = "T" -> "t"
      [] c = "U" -> "u" [] c = "V" -> "v" [] c = "W" -> "w" [] c = "X" -> "x"
      [] c = "Y" -> "y" [] c = "Z" -> "z" [] OTHER -> c

RECURSIVE Lower(_)
\* s.lower()
Lower(s) ==
    IF Len(s) = 0 THEN ""
    ELSE LowerChar(SubSeq(s, 1, 1)) \o Lower(SubSeq(s, 2, Len(s)))

-----------------------------------------------------------------------------
(* The agent, as analyst_agent_node sees it *)

Analysis == "{'scenes': 3}"

\* What the awaited call can return: an object with an output attribute, a result
\* attribute, both, or neither ("raw" is the returned object itself).
Results ==
    { [output |-> Analysis, raw |-> "<RunResult>"],
      [result |-> Analysis, raw |-> "<RunResult>"],
      [output |-> "None", result |-> Analysis, raw |-> "<RunResult>"],
      [raw |-> Analysis],
      [raw |-> "None"] }

\* str(e) of the exceptions the agent invocation can raise
Messages == {"extraction failed: corrupt PDF", "model overloaded", ""}

\* str(e) of the AttributeError that the third call form lets through
NotCallable == "'Agent' object has no attribute '__call__'"

NoResult == [raw |-> "None"]

Returned(r) == [kind |-> "result", result |-> r, msg |-> ""]
Raised(m) == [kind |-> "raise", result |-> NoResult, msg |-> m]
NoOutcome == [kind |-> "none", result |-> NoResult, msg |-> ""]

-----------------------------------------------------------------------------
(* graph/nodes.py *)

\* the payload chosen by the truth value of the attributes (result.output or
\* result.result or result)
analysis_data_of_truthy(result) ==
    IF "output" \in DOMAIN result /\ Truthy(result["output"]) THEN result["output"]
    ELSE IF "result" \in DOMAIN result /\ Truthy(result["result"]) THEN result["result"]
    ELSE result["raw"]

\* lines 37-43: the payload of the agent's result
analysis_data_of(result) ==
    IF "output" \in DOMAIN result THEN result["output"]
    ELSE IF "result" \in DOMAIN result THEN result["result"]
    ELSE result["raw"]

\* lines 45-50: the success path
analysis_completed(st, result) ==
    Put(Put(Put(st, "comprehensive_analysis", analysis_data_of(result)),
            "status", "analysis_completed"),
        "api_calls_used", 2)

\* the failure path counting both API calls
analysis_failed_two_calls(st, m) ==
    Put(Put(Put(st, "status", "analysis_failed: " \o m),
            "errors", Get(st, "errors", <<>>) \o <<m>>),
        "api_calls_used", 2)

\* the failure path starting a new errors list
analysis_failed_new_list(st, m) ==
    Put(Put(Put(st, "status", "analysis_failed: " \o m), "errors", <<m>>),
        "api_calls_used", 1)

\* lines 52-57: the failure path
analysis_failed(st, m) ==
    Put(Put(Put(st, "status", "analysis_failed: " \o m),
            "errors", Get(st, "errors", <<>>) \o <<m>>),
        "api_calls_used", 1)

\* the node without its except clause: an exception of the agent leaves the node
analyst_agent_node_reraises(st, outcome) ==
    IF outcome.kind = "result"
    THEN [raised |-> FALSE, state |-> analysis_completed(st, outcome.result)]
    ELSE [raised |-> TRUE, state |-> st]

\* The node, given how the agent invocation ended: whether the node itself raises,
\* and the state it returns.
analyst_agent_node(st, outcome) ==
    IF outcome.kind = "result"
    THEN [raised |-> FALSE, state |-> analysis_completed(st, outcome.result)]
    ELSE [raised |-> FALSE, state |-> analysis_failed(st, outcome.msg)]

\* the feedback node leaving a feedback_required it finds as it is
human_feedback_node_keeps_flag(st) ==
    LET s1 == IF "feedback_required" \notin DOMAIN st
              THEN Put(st, "feedback_required", "False") ELSE st
        s2 == IF "feedback_text" \notin DOMAIN s1
              THEN Put(s1, "feedback_text", "") ELSE s1
    IN  Merge(s2, [status |-> "analysis_completed"])

\* lines 60-72
human_feedback_node(st) ==
    LET s1 == IF "feedback_required" \notin DOMAIN st
              THEN Put(st, "feedback_required", "False") ELSE st
        s2 == IF "feedback_text" \notin DOMAIN s1
              THEN Put(s1, "feedback_text", "") ELSE s1
    IN  Merge(s2, [feedback_required |-> "False", status |-> "analysis_completed"])

-----------------------------------------------------------------------------
(* graph/workflow.py *)

\* the routing function reading state['feedback_required'], a KeyError without the key
should_continue_or_end_subscript(st) ==
    IF "feedback_required" \notin DOMAIN st
    THEN [failed |-> TRUE, ret |-> "KeyError", state |-> st]
    ELSE [failed |-> FALSE,
          ret    |-> IF Truthy(st["feedback_required"]) THEN "unified_analysis" ELSE "END",
          state  |-> st]

\* the routing function looping back also for a state that carries errors
should_continue_or_end_reads_errors(st) ==
    LET feedback_required == Get(st, "feedback_required", "False")
    IN  [failed |-> FALSE,
         ret    |-> IF Truthy(feedback_required) \/ Len(Get(st, "errors", <<>>)) > 0
                    THEN "unified_analysis" ELSE "END",
         state  |-> st]

\* The routing function: whether the call fails, what it returns, and the state
\* mapping as the call leaves it.
should_continue_or_end(st) ==
    LET feedback_required == Get(st, "feedback_required", "False")
    IN  [failed |-> FALSE,
         ret    |-> IF Truthy(feedback_required) THEN "unified_analysis" ELSE "END",
         state  |-> st]

\* the path map handed to add_conditional_edges
conditional_edges == [END |-> "END", analyst_agent |-> "analyst_agent"]

\* add_edge("analyst_agent", "human_feedback")
edges == [analyst_agent |-> "human_feedback"]

\* Where the conditional edge sends control for a return value of the routing
\* function; a value that is no key of the path map raises KeyError in the graph.
resolve(ret) ==
    IF ret \in DOMAIN conditional_edges THEN conditional_edges[ret] ELSE "error"

-----------------------------------------------------------------------------
(* States a caller can hand to the compiled graph *)

OptionalKeys == {"status", "comprehensive_analysis", "errors", "api_calls_used",
                 "feedback_required", "feedback_text"}

\* values of feedback_required, booleans and others
FeedbackValues == {"True", "False", "None", "'yes'", "0"}

InputErrors == UNION {[1..n -> {"earlier failure"}] : n \in 0..MaxInputErrors}

InputState(keys, fr, errs) ==
    [k \in keys \cup {"pdf_path"} |->
        CASE k = "pdf_path" -> "script.pdf"
          [] k = "status" -> "awaiting_human_feedback"
          [] k = "comprehensive_analysis" -> "{'scenes': 1}"
          [] k = "errors" -> errs
          [] k = "api_calls_used" -> 2
          [] k = "feedback_required" -> fr
          [] k = "feedback_text" -> "looks good"]

InputStates ==
    {InputState(keys, fr, errs) :
        keys \in SUBSET OptionalKeys, fr \in FeedbackValues, errs \in InputErrors}

NoCall == [called |-> FALSE, arg |-> EmptyDict, failed |-> FALSE, ret |-> "", after |-> EmptyDict]

NoResponse == [status_code |-> 0, content |-> EmptyDict]

-----------------------------------------------------------------------------
(* One run of the compiled graph *)

NoRequest == [endpoint |-> "none"]

store_vars == <<request, submitted, persistence>>

conc_vars == <<runs, heap>>

handler_vars == <<save_to_db, temp_file_path, files, response, timed_out, db, next_id, nreq,
                  store_vars, conc_vars>>

\* the graph is entered at its entry point with state s
start_graph(s) ==
    /\ state' = s
    /\ gpc' = "analyst_agent"
    /\ form' = 1
    /\ analyst_runs' = 0
    /\ feedback_runs' = 0
    /\ node_in' = EmptyDict
    /\ agent_outcome' = NoOutcome
    /\ route_call' = NoCall
    /\ attempts' = <<>>

\* analyst_agent_node runs to its end with the agent invocation ending as outcome;
\* the graph writes the returned mapping to the state and follows the edge.
finish_analyst(outcome) ==
    LET node == analyst_agent_node(state, outcome)
    IN  /\ node_in' = state
        /\ agent_outcome' = outcome
        /\ analyst_runs' = analyst_runs + 1
        /\ state' = IF node.raised THEN state ELSE Merge(state, node.state)
        /\ gpc' = IF node.raised THEN "error" ELSE edges["analyst_agent"]
        /\ UNCHANGED <<pc, api, form, feedback_runs, route_call, handler_vars>>

awaiting_agent == gpc = "analyst_agent" /\ form \in 1..3 /\ analyst_runs < MaxNodeRuns

\* the try statements catching Exception instead of AttributeError: every failed
\* form is followed by the next one
after_attempt_any_exception(f, how) ==
    IF how # "result" /\ f < 3 THEN "next_form" ELSE "done"

\* lines 27-33, the try statements around the three call forms: what follows
\* the attempt of form f that ended as how ("result", "AttributeError", "Exception")
after_attempt(f, how) ==
    IF how = "AttributeError" /\ f < 3 THEN "next_form" ELSE "done"

\* the awaited call form ends as how; outcome is what the node makes of it when
\* no further form is tried
attempt_ends(how, outcome) ==
    /\ attempts' = Append(attempts, [form |-> form, how |-> how])
    /\ IF after_attempt(form, how) = "next_form"
       THEN /\ form' = form + 1
            /\ UNCHANGED <<pc, api, gpc, state, analyst_runs, feedback_runs, node_in,
                           agent_outcome, route_call, handler_vars>>
       ELSE finish_analyst(outcome)

\* the awaited call form returns r
agent_returns(r) ==
    /\ awaiting_agent
    /\ attempt_ends("result", Returned(r))

\* the awaited call form raises AttributeError: the next form is tried, and the
\* third form's AttributeError reaches the handler of the node
agent_attribute_error ==
    /\ awaiting_agent
    /\ attempt_ends("AttributeError", Raised(NotCallable))

\* the awaited call form raises another exception, with message m
agent_raises(m) ==
    /\ awaiting_agent
    /\ attempt_ends("Exception", Raised(m))

human_feedback ==
    /\ gpc = "human_feedback"
    /\ feedback_runs < MaxNodeRuns
    /\ state' = Merge(state, human_feedback_node(state))
    /\ feedback_runs' = feedback_runs + 1
    /\ gpc' = "should_continue_or_end"
    /\ UNCHANGED <<pc, api, form, analyst_runs, node_in, agent_outcome, route_call,
                   attempts, handler_vars>>

call_of(s) ==
    LET c == should_continue_or_end(s)
    IN  [called |-> TRUE, arg |-> s, failed |-> c.failed, ret |-> c.ret, after |-> c.state]

\* the conditional edge after human_feedback
route ==
    /\ gpc = "should_continue_or_end"
    /\ route_call' = call_of(state)
    /\ state' = route_call'.after
    /\ gpc' = IF route_call'.failed THEN "error" ELSE resolve(route_call'.ret)
    /\ form' = 1
    /\ attempts' = IF gpc' = "analyst_agent" THEN <<>> ELSE attempts
    /\ UNCHANGED <<pc, api, analyst_runs, feedback_runs, node_in, agent_outcome,
                   handler_vars>>

(* A caller of the graph outside the HTTP layer *)

ainvoke(s) ==
    /\ pc = "idle"
    /\ pc' = "analysis"
    /\ api' = "direct"
    /\ start_graph(s)
    /\ UNCHANGED handler_vars

ainvoke_return ==
    /\ api = "direct"
    /\ gpc \in {"END", "error"}
    /\ pc' = "idle"
    /\ api' = "none"
    /\ gpc' = "none"
    /\ form' = 0
    /\ state' = EmptyDict
    /\ analyst_runs' = 0
    /\ feedback_runs' = 0
    /\ node_in' = EmptyDict
    /\ agent_outcome' = NoOutcome
    /\ route_call' = NoCall
    /\ attempts' = <<>>
    /\ UNCHANGED handler_vars

\* a call of the routing function on its own
call_should_continue_or_end(s) ==
    /\ pc = "idle"
    /\ route_call' = call_of(s)
    /\ UNCHANGED <<pc, api, gpc, form, state, analyst_runs, feedback_runs, node_in,
                   agent_outcome, attempts, handler_vars>>

Init ==
    /\ pc = "idle"
    /\ api = "none"
    /\ save_to_db = FALSE
    /\ temp_file_path = "None"
    /\ files = {}
    /\ gpc = "none"
    /\ form = 0
    /\ state = EmptyDict
    /\ analyst_runs = 0
    /\ feedback_runs = 0
    /\ node_in = EmptyDict
    /\ agent_outcome = NoOutcome
    /\ route_call = NoCall
    /\ response = NoResponse
    /\ timed_out = FALSE
    /\ db = {}
    /\ next_id = 1
    /\ nreq = 0
    /\ request = NoRequest
    /\ submitted = EmptyDict
    /\ persistence = "not_called"
    /\ attempts = <<>>
    /\ runs = <<>>
    /\ heap = <<>>

GraphStep ==
    \/ \E r \in Results : agent_returns(r)
    \/ agent_attribute_error
    \/ \E m \in Messages : agent_raises(m)
    \/ human_feedback
    \/ route

GraphNext ==
    \/ \E s \in InputStates : ainvoke(s)
    \/ GraphStep
    \/ ainvoke_return
    \/ \E s \in InputStates : call_should_continue_or_end(s)

\* The graph and its routing function, called with every state of InputStates
GraphSpec == Init /\ [][GraphNext]_vars

\* The awaited agent call returns or raises, and the graph runs a ready node
FairGraphSpec == GraphSpec /\ WF_vars(GraphStep)

-----------------------------------------------------------------------------
(* api/api.py and api/api_2.py: POST /analyze-script *)

HTTPException(code, detail) == [type |-> "HTTPException", status_code |-> code, msg |-> detail]
Exception(m) == [type |-> "Exception", status_code |-> 0, msg |-> m]

error_response(code, detail) == [status_code |-> code, content |-> [detail |-> detail]]

\* the except Exception clause testing 'analysis' before 'extract' and 'validation'
classify_analysis_first(m) ==
    IF Contains(Lower(m), "analysis")
    THEN error_response(500, "Analysis failed: " \o m)
    ELSE IF Contains(Lower(m), "extract")
    THEN error_response(422, "PDF extraction failed: " \o m)
    ELSE IF Contains(Lower(m), "validation")
    THEN error_response(422, "Script validation failed: " \o m)
    ELSE error_response(500, "Unexpected error: " \o m)

\* the except Exception clause: the status is chosen from the lower-cased message
classify(m) ==
    IF Contains(Lower(m), "extract")
    THEN error_response(422, "PDF extraction failed: " \o m)
    ELSE IF Contains(Lower(m), "validation")
    THEN error_response(422, "Script validation failed: " \o m)
    ELSE IF Contains(Lower(m), "analysis")
    THEN error_response(500, "Analysis failed: " \o m)
    ELSE error_response(500, "Unexpected error: " \o m)

\* the except clauses with except Exception first: an HTTPException is classified
\* by its message like any other exception
handle_exception_generic_first(exc) == classify(exc.msg)

\* the except clauses of analyze_script: an HTTPException is raised again as it
\* is, any other exception is classified
handle_exception(exc) ==
    IF exc.type = "HTTPException"
    THEN error_response(exc.status_code, exc.msg)
    ELSE classify(exc.msg)

\* the finally clause: the temporary file is unlinked when its name was recorded
cleanup(path, on_disk) ==
    IF path # "None" /\ path \in on_disk THEN on_disk \ {path} ELSE on_disk

\* tempfile.NamedTemporaryFile(delete=False, suffix='.pdf'): a fresh name per request
temp_name(n) == "/tmp/tmp" \o ToString(n) \o ".pdf"

Filename == "script.pdf"

\* how the upload fares before the analysis: FileValidator.validate_file rejects
\* it, file.read() raises, validate_file_size rejects it, or all pass
Uploads ==
    {[kind |-> "ok", msg |-> ""], [kind |-> "invalid_file", msg |-> ""],
     [kind |-> "too_large", msg |-> ""]}
    \cup {[kind |-> "read_error", msg |-> m] :
            m \in {"Extraction of upload failed", "validation of stream failed",
                   "analysis upload aborted", "connection reset",
                   "Analysis of extracted text failed validation",
                   "Validation before analysis failed"}}

\* FileValidator (api/validators.py): the HTTPException a rejected upload raises
FileValidator_error(kind) ==
    IF kind = "invalid_file"
    THEN HTTPException(400, "Only PDF files are supported")
    ELSE HTTPException(413, "File too large")

\* main.run_optimized_script_analysis: the state mapping a request's run starts from
FreshStates(path) ==
    {[pdf_path |-> path],
     [pdf_path |-> path, errors |-> <<>>, feedback_required |-> "False", feedback_text |-> ""]}

\* ResultSerializer.serialize (api/serializers.py): the final state as a plain dict
serialize(result) == [k \in DOMAIN result |-> result[k]]

\* AnalyzedScriptService.create_analyzed_script (database/services.py)
create_analyzed_script(id, filename, original_filename, file_size_bytes, analysis_data, processing_time, api_calls_used) ==
    [id |-> id, req |-> nreq, filename |-> filename, original_filename |-> original_filename,
     file_size_bytes |-> file_size_bytes, analysis_data |-> analysis_data,
     processing_time_seconds |-> processing_time, api_calls_used |-> api_calls_used,
     status |-> "completed", created_at |-> id]

\* api.py lines 153-171 with the save outside any try statement: an exception of
\* the persistence layer reaches the except Exception clause of the handler
database_saving_raises(response_data, flag, save_ok, id) ==
    IF ~flag
    THEN [persistence |-> "not_called",
          response |-> [status_code |-> 200, content |-> response_data]]
    ELSE IF save_ok
    THEN [persistence |-> "saved",
          response |-> [status_code |-> 200,
                        content |-> Put(response_data, "database_id", id)]]
    ELSE [persistence |-> "failed", response |-> classify("connection refused")]

\* api.py lines 153-171: whether the persistence layer is called and the response
\* that results; save_ok is whether create_analyzed_script returns or raises
database_saving(response_data, flag, save_ok, id) ==
    IF ~flag
    THEN [persistence |-> "not_called",
          response |-> [status_code |-> 200, content |-> response_data]]
    ELSE IF save_ok
    THEN [persistence |-> "saved",
          response |-> [status_code |-> 200,
                        content |-> Put(response_data, "database_id", id)]]
    ELSE [persistence |-> "failed",
          response |-> [status_code |-> 200,
                        content |-> Put(response_data, "database_error",
                                        "connection refused")]]

graph_vars == <<gpc, form, state, analyst_runs, feedback_runs, node_in, agent_outcome,
                route_call, attempts>>

\* The request up to the awaited analysis (lines 91-114): the upload is validated,
\* written to a temporary file, and the workflow is started on that file.
analyze_script_begin(a, save, upload) ==
    /\ pc = "idle"
    /\ nreq < MaxRequests
    /\ nreq' = nreq + 1
    /\ api' = a
    /\ save_to_db' = (a = "api" /\ save)
    /\ timed_out' = FALSE
    /\ request' = [endpoint |-> "analyze-script", upload |-> upload]
    /\ persistence' = "not_called"
    /\ UNCHANGED <<db, next_id, submitted, conc_vars>>
    /\ LET name == temp_name(nreq')
       IN  CASE upload.kind = "invalid_file" ->
                    \* raised before the try statement and before the file exists
                    /\ response' = error_response(FileValidator_error(upload.kind).status_code,
                                                  FileValidator_error(upload.kind).msg)
                    /\ pc' = "responded"
                    /\ temp_file_path' = "None"
                    /\ UNCHANGED <<files, graph_vars>>
             [] upload.kind \in {"read_error", "too_large"} ->
                    \* raised inside the with block, before temp_file_path is assigned
                    /\ temp_file_path' = "None"
                    /\ response' = handle_exception(
                                      IF upload.kind = "read_error"
                                      THEN Exception(upload.msg)
                                      ELSE FileValidator_error(upload.kind))
                    /\ files' = cleanup(temp_file_path', files \cup {name})
                    /\ pc' = "responded"
                    /\ UNCHANGED graph_vars
             [] upload.kind = "ok" ->
                    /\ temp_file_path' = name
                    /\ files' = files \cup {name}
                    /\ \E s \in FreshStates(name) : start_graph(s)
                    /\ pc' = "analysis"
                    /\ response' = NoResponse

\* asyncio.wait_for gives up while the agent call is awaited (lines 115-119): the
\* run is cancelled and the handler raises HTTPException(408)
timeout ==
    /\ pc = "analysis"
    /\ api \in {"api", "api_2"}
    /\ awaiting_agent
    /\ timed_out' = TRUE
    /\ gpc' = "cancelled"
    /\ response' = handle_exception(
                      HTTPException(408, "Analysis timed out. Please try with a smaller script."))
    /\ files' = cleanup(temp_file_path, files)
    /\ pc' = "responded"
    /\ UNCHANGED <<api, save_to_db, temp_file_path, form, state, analyst_runs,
                   feedback_runs, node_in, agent_outcome, route_call, attempts, db,
                   next_id, nreq, store_vars, conc_vars>>

\* api.py lines 121-196: the run has ended; the result is serialized, saved when
\* save_to_db is set (the save succeeds or raises) and returned
analyze_script(save_ok) ==
    /\ pc = "analysis"
    /\ api = "api"
    /\ gpc \in {"END", "error"}
    /\ IF gpc = "error"
       THEN /\ response' = handle_exception(Exception("'" \o route_call.ret \o "'"))
            /\ UNCHANGED <<db, next_id, persistence>>
       ELSE LET result == state
                clean_result == serialize(result)
                calls == Get(result, "api_calls_used", 2)
                response_data == [success |-> "True",
                                  api_calls_used |-> calls,
                                  data |-> Get(clean_result, "data", clean_result)]
                saving == database_saving(response_data, save_to_db, save_ok, next_id)
            IN  /\ response' = saving.response
                /\ persistence' = saving.persistence
                /\ IF saving.persistence = "saved"
                   THEN /\ db' = db \cup {create_analyzed_script(next_id, Filename, Filename,
                                              1024, clean_result, 3, calls)}
                        /\ next_id' = next_id + 1
                   ELSE UNCHANGED <<db, next_id>>
    /\ files' = cleanup(temp_file_path, files)
    /\ pc' = "responded"
    /\ UNCHANGED <<api, save_to_db, temp_file_path, graph_vars, timed_out, nreq, request,
                   submitted, conc_vars>>

\* api_2.py lines 121-219: the run has ended; a missing or empty
\* comprehensive_analysis is an HTTPException(500), anything else is returned
analyze_script_v2 ==
    /\ pc = "analysis"
    /\ api = "api_2"
    /\ gpc \in {"END", "error"}
    /\ IF gpc = "error"
       THEN response' = handle_exception(Exception("'" \o route_call.ret \o "'"))
       ELSE LET result == state
                comprehensive_analysis == Get(result, "comprehensive_analysis", "None")
            IN  IF ~Truthy(comprehensive_analysis)
                THEN response' = handle_exception(HTTPException(500,
                         "Analysis completed but no comprehensive analysis data found"))
                ELSE response' =
                         [status_code |-> 200,
                          content |-> [success |-> "True",
                                       api_calls_used |-> Get(result, "api_calls_used", 2),
                                       data |-> comprehensive_analysis,
                                       analysis_data |-> comprehensive_analysis]]
    /\ files' = cleanup(temp_file_path, files)
    /\ pc' = "responded"
    /\ UNCHANGED <<api, save_to_db, temp_file_path, graph_vars, timed_out, db, next_id, nreq,
                   store_vars, conc_vars>>

\* the response has been sent; the server waits for the next request
next_request ==
    /\ pc = "responded"
    /\ pc' = "idle"
    /\ api' = "none"
    /\ save_to_db' = FALSE
    /\ temp_file_path' = "None"
    /\ gpc' = "none"
    /\ form' = 0
    /\ state' = EmptyDict
    /\ analyst_runs' = 0
    /\ feedback_runs' = 0
    /\ node_in' = EmptyDict
    /\ agent_outcome' = NoOutcome
    /\ route_call' = NoCall
    /\ response' = NoResponse
    /\ timed_out' = FALSE
    /\ request' = NoRequest
    /\ persistence' = "not_called"
    /\ attempts' = <<>>
    /\ UNCHANGED <<files, db, next_id, nreq, submitted, conc_vars>>

Next ==
    \/ \E a \in {"api", "api_2"}, save \in BOOLEAN, upload \in Uploads :
          analyze_script_begin(a, save, upload)
    \/ GraphStep
    \/ timeout
    \/ \E save_ok \in BOOLEAN : analyze_script(save_ok)
    \/ analyze_script_v2
    \/ next_request

\* The service handling POST /analyze-script requests one after the other
Spec == Init /\ [][Next]_vars

-----------------------------------------------------------------------------
(* Properties of the graph *)

\* the state analyst_agent_node has just returned
analyst_returned == gpc = "human_feedback" /\ agent_outcome.kind # "none"

\* C1: the state analyst_agent_node returns satisfies exactly one of
\* (comprehensive_analysis present and api_calls_used = 2) and
\* (errors non-empty and api_calls_used = 1), for every input state and every
\* way the agent invocation ends.
C1_ExactlyOneOutcome ==
    analyst_returned =>
        LET succeeded == /\ "comprehensive_analysis" \in DOMAIN state
                         /\ Get(state, "api_calls_used", 0) = 2
            failed    == /\ Len(Get(state, "errors", <<>>)) > 0
                         /\ Get(state, "api_calls_used", 0) = 1
        IN  succeeded # failed

\* the agent raised although the input state already carried an analysis
C1_Witness ==
    /\ analyst_returned
    /\ agent_outcome.kind = "raise"
    /\ "comprehensive_analysis" \in DOMAIN node_in
    /\ "errors" \notin DOMAIN node_in

\* C2: every run of the graph reaches END, and reaches it after exactly one
\* execution of analyst_agent and one of human_feedback; no run ends in an error.
C2_OnePassThenEnd ==
    /\ [](gpc = "analyst_agent" => <>(gpc = "END"))
    /\ [](gpc = "END" => analyst_runs = 1 /\ feedback_runs = 1)
    /\ [](gpc # "error")

\* a run that began with feedback_required true and whose analysis failed is at END
C2_Witness ==
    /\ gpc = "END"
    /\ Get(node_in, "feedback_required", "False") = "True"
    /\ agent_outcome.kind = "raise"
    /\ analyst_runs = 1
    /\ feedback_runs = 1

\* C3: the conditional edge sends control to analyst_agent when feedback_required
\* is true and to END when it is false: every return value of
\* should_continue_or_end is a key of the path map.
C3_EveryRouteResolved ==
    route_call.called =>
        /\ ~route_call.failed
        /\ resolve(route_call.ret) =
              IF Truthy(Get(route_call.arg, "feedback_required", "False"))
              THEN "analyst_agent" ELSE "END"

\* C4: every execution of analyst_agent, successful or not, is followed by an
\* execution of human_feedback.
C4_FeedbackFollowsAnalysis ==
    /\ [][analyst_runs' = analyst_runs + 1 => gpc' = "human_feedback"]_vars
    /\ (gpc = "human_feedback") ~> (gpc = "should_continue_or_end" /\ feedback_runs = analyst_runs)

\* human_feedback has run after an analysis in which the agent raised
C4_Witness ==
    /\ gpc = "should_continue_or_end"
    /\ agent_outcome.kind = "raise"
    /\ analyst_runs = 1
    /\ feedback_runs = 1

\* C5: when the agent raises with message m, the node returns its input state with
\* status 'analysis_failed: m', m appended to errors and api_calls_used 1, and
\* every other field as it was.
C5_FailureFrame ==
    (analyst_returned /\ agent_outcome.kind = "raise") =>
        LET m == agent_outcome.msg
            written == {"status", "errors", "api_calls_used"}
            before == IF "errors" \in DOMAIN node_in THEN node_in["errors"] ELSE <<>>
        IN  /\ DOMAIN state = DOMAIN node_in \cup written
            /\ state["status"] = "analysis_failed: " \o m
            /\ state["errors"] = Append(before, m)
            /\ state["api_calls_used"] = 1
            /\ \A k \in DOMAIN node_in \ written : state[k] = node_in[k]

\* the agent raised on a state that carried an earlier error and an analysis
C5_Witness ==
    /\ analyst_returned
    /\ agent_outcome.kind = "raise"
    /\ Len(Get(node_in, "errors", <<>>)) > 0
    /\ "comprehensive_analysis" \in DOMAIN node_in
    /\ Len(state["errors"]) = Len(node_in["errors"]) + 1

\* C6: when the agent raised, the state the graph returns at END has the message
\* in errors and 'analysis_failed: <message>' as status.
C6_FailureStatusAtExit ==
    (gpc = "END" /\ agent_outcome.kind = "raise") =>
        /\ \E i \in 1..Len(Get(state, "errors", <<>>)) : state["errors"][i] = agent_outcome.msg
        /\ Get(state, "status", "") = "analysis_failed: " \o agent_outcome.msg

\* C7: should_continue_or_end never fails and returns one of its two outcomes, for
\* a state without feedback_required and for a non-boolean value too, and a second
\* call on the same state returns the same outcome.
C7_RoutingTotal ==
    route_call.called =>
        /\ ~route_call.failed
        /\ route_call.ret \in {"unified_analysis", "END"}
        /\ call_of(route_call.after).ret = route_call.ret
        /\ ~call_of(route_call.after).failed

\* the routing function was called on a state without the key, and on a non-boolean
C7_Witness ==
    /\ route_call.called
    /\ \/ "feedback_required" \notin DOMAIN route_call.arg /\ route_call.ret = "END"
       \/ Get(route_call.arg, "feedback_required", "") = "'yes'"
          /\ route_call.ret = "unified_analysis"

\* two states agree on feedback_required
same_feedback_required(s, t) ==
    /\ ("feedback_required" \in DOMAIN s) = ("feedback_required" \in DOMAIN t)
    /\ Get(s, "feedback_required", "") = Get(t, "feedback_required", "")

\* C8: should_continue_or_end reads only feedback_required (states that agree on
\* it get the same outcome) and leaves the state passed in unchanged.
C8_RoutingReadsOnlyFlag ==
    route_call.called =>
        /\ route_call.after = route_call.arg
        /\ \A s \in InputStates :
              same_feedback_required(s, route_call.arg) =>
                  should_continue_or_end(s).ret = route_call.ret

\* the routing function was called on a state with errors, a status and an analysis
C8_Witness ==
    /\ route_call.called
    /\ Len(Get(route_call.arg, "errors", <<>>)) > 0
    /\ "status" \in DOMAIN route_call.arg
    /\ "comprehensive_analysis" \in DOMAIN route_call.arg
    /\ Get(route_call.arg, "feedback_required", "False") = "False"
    /\ route_call.ret = "END"

-----------------------------------------------------------------------------
(* Properties of POST /analyze-script *)

\* C9: when the analysis call times out the request ends with status 408, not a
\* status of the generic exception handler, and no database record is created for
\* the request, also when save_to_db is true.
C9_TimeoutIs408 ==
    timed_out =>
        /\ pc = "responded"
        /\ response.status_code = 408
        /\ \A r \in db : r.req # nreq

\* a request of api.py with save_to_db set timed out, after an earlier request
\* was saved
C9_Witness ==
    /\ timed_out
    /\ api = "api"
    /\ save_to_db
    /\ db # {}
    /\ response.status_code = 408

\* C10: when the agent raises 'extraction failed: corrupt PDF' during
\* POST /analyze-script, the client receives a 422 whose detail contains 'extract'.
C10_ExtractionFailureIs422 ==
    (/\ pc = "responded"
     /\ agent_outcome.kind = "raise"
     /\ agent_outcome.msg = "extraction failed: corrupt PDF") =>
        /\ response.status_code = 422
        /\ Contains(Get(response.content, "detail", ""), "extract")

\* C11: with save_to_db set, a failing persistence call does not fail the request:
\* the response is 200 with the data, database_error and no database_id; a save
\* that succeeds gives database_id and no database_error; without save_to_db the
\* response has neither and the persistence layer is not called.
C11_SaveFailureNotFatal ==
    (pc = "responded" /\ api = "api" /\ gpc = "END") =>
        LET keys == DOMAIN response.content
        IN  /\ response.status_code = 200
            /\ "data" \in keys
            /\ (persistence = "not_called") = ~save_to_db
            /\ persistence = "failed" =>
                  /\ "database_error" \in keys /\ "database_id" \notin keys
                  /\ \A r \in db : r.req # nreq
            /\ persistence = "saved" =>
                  /\ "database_id" \in keys /\ "database_error" \notin keys
                  /\ \E r \in db : r.id = response.content["database_id"] /\ r.req = nreq
            /\ persistence = "not_called" =>
                  /\ "database_id" \notin keys /\ "database_error" \notin keys
                  /\ \A r \in db : r.req # nreq

\* the persistence call of a request with save_to_db failed and the request was answered
C11_Witness ==
    /\ pc = "responded"
    /\ api = "api"
    /\ save_to_db
    /\ persistence = "failed"
    /\ response.status_code = 200
    /\ "database_error" \in DOMAIN response.content

\* C12: when the agent invocation raised, POST /analyze-script creates no database
\* record for the request, whatever save_to_db is.
C12_NoRecordOfFailedAnalysis ==
    (/\ pc = "responded"
     /\ request.endpoint = "analyze-script"
     /\ agent_outcome.kind = "raise") =>
        \A r \in db : r.req # nreq

errors_of(st) == Get(st, "errors", <<>>)

IsPrefix(s, t) == Len(s) <= Len(t) /\ SubSeq(t, 1, Len(s)) = s

\* C17: within one run the errors list only grows: after every execution of a
\* node the errors list of before is a prefix of the errors list of after.
C17_ErrorsOnlyGrow ==
    [][(analyst_runs' > analyst_runs \/ feedback_runs' > feedback_runs) =>
          IsPrefix(errors_of(state), errors_of(state'))]_vars

\* both nodes ran on a state that came with one error, and the agent's failure was appended
C17_Witness ==
    /\ gpc = "END"
    /\ analyst_runs = 1
    /\ feedback_runs = 1
    /\ agent_outcome.kind = "raise"
    /\ Len(errors_of(node_in)) = 1
    /\ errors_of(state) = errors_of(node_in) \o <<agent_outcome.msg>>

\* C18: the call forms run_async, run and direct call are tried in this order; a
\* form is tried only after the one before it raised AttributeError, none is tried
\* after a form returned, and any other exception ends the attempts on the
\* failure path.
C18_CallFormsInOrder ==
    LET n == Len(attempts)
    IN  /\ n <= 3
        /\ \A i \in 1..n : attempts[i].form = i
        /\ \A i \in 1..(n - 1) : attempts[i].how = "AttributeError"
        /\ (n > 0 /\ gpc = "analyst_agent") => attempts[n].how = "AttributeError" /\ n < 3
        /\ (n > 0 /\ attempts[n].how = "result") =>
              /\ gpc # "analyst_agent"
              /\ agent_outcome.kind = "result"
              /\ errors_of(state) = errors_of(node_in)
        /\ (n > 0 /\ attempts[n].how = "Exception") =>
              /\ gpc # "analyst_agent"
              /\ agent_outcome.kind = "raise"
              /\ errors_of(state) = errors_of(node_in) \o <<agent_outcome.msg>>

\* run_async and run raised AttributeError and the direct call returned
C18_Witness ==
    /\ Len(attempts) = 3
    /\ attempts[1].how = "AttributeError"
    /\ attempts[2].how = "AttributeError"
    /\ attempts[3].how = "result"
    /\ gpc = "human_feedback"

\* C19: when the agent returned, comprehensive_analysis is the result's output
\* attribute if it has one, else its result attribute if it has one, else the
\* result itself, whatever the attribute's value is; status is
\* 'analysis_completed' and api_calls_used is 2.
C19_PayloadByPresence ==
    (gpc = "human_feedback" /\ agent_outcome.kind = "result") =>
        LET r == agent_outcome.result
            expected == CASE "output" \in DOMAIN r -> r["output"]
                          [] "output" \notin DOMAIN r /\ "result" \in DOMAIN r -> r["result"]
                          [] OTHER -> r["raw"]
        IN  /\ state["comprehensive_analysis"] = expected
            /\ state["status"] = "analysis_completed"
            /\ state["api_calls_used"] = 2

\* the result had an output attribute of None beside a non-empty result attribute
C19_Witness ==
    /\ gpc = "human_feedback"
    /\ agent_outcome.kind = "result"
    /\ "output" \in DOMAIN agent_outcome.result
    /\ agent_outcome.result["output"] = "None"
    /\ "result" \in DOMAIN agent_outcome.result
    /\ state["comprehensive_analysis"] = "None"

\* status and detail prefix the claim gives each message of a read failure
ExpectedOfMessage ==
    [m \in {u.msg : u \in {x \in Uploads : x.kind = "read_error"}} |->
        CASE m = "Extraction of upload failed" ->
                [status_code |-> 422, prefix |-> "PDF extraction failed: "]
          [] m = "validation of stream failed" ->
                [status_code |-> 422, prefix |-> "Script validation failed: "]
          [] m = "analysis upload aborted" ->
                [status_code |-> 500, prefix |-> "Analysis failed: "]
          [] m = "connection reset" ->
                [status_code |-> 500, prefix |-> "Unexpected error: "]
          [] m = "Analysis of extracted text failed validation" ->
                [status_code |-> 422, prefix |-> "PDF extraction failed: "]
          [] m = "Validation before analysis failed" ->
                [status_code |-> 422, prefix |-> "Script validation failed: "]]

\* C20: an exception of POST /analyze-script that is no HTTPException is answered
\* by the first rule its lower-cased message matches: 'extract' 422, 'validation'
\* 422, 'analysis' 500, otherwise 500; an HTTPException keeps its own status.
C20_FirstMatchingRule ==
    (pc = "responded" /\ request.endpoint = "analyze-script") =>
        /\ request.upload.kind = "read_error" =>
              LET e == ExpectedOfMessage[request.upload.msg]
              IN  /\ response.status_code = e.status_code
                  /\ response.content["detail"] = e.prefix \o request.upload.msg
        /\ request.upload.kind = "too_large" =>
              /\ response.status_code = 413
              /\ response.content["detail"] = "File too large"
        /\ timed_out => response.status_code = 408

\* a message holding 'validation' and 'analysis' was answered by the 'validation' rule
C20_Witness ==
    /\ pc = "responded"
    /\ request.endpoint = "analyze-script"
    /\ request.upload.kind = "read_error"
    /\ request.upload.msg = "Validation before analysis failed"
    /\ response.status_code = 422

-----------------------------------------------------------------------------
(* api/api.py and api/api_2.py: the endpoints of the analyzed_scripts table *)

\* a or b
Or(a, b) == IF Truthy(a) THEN a ELSE b

Min(a, b) == IF a <= b THEN a ELSE b

\* bodies of POST /save-analysis (SaveAnalysisRequest): original_filename is
\* optional and may be left out (None), empty, or given
SaveBodies ==
    {[filename |-> "script.pdf", original_filename |-> o, file_size_bytes |-> 1024,
      analysis_data |-> Analysis, processing_time_seconds |-> 3, api_calls_used |-> 2] :
        o \in {"None", "''", "orig.pdf"}}
    \cup {[filename |-> "draft.pdf", original_filename |-> "draft v2.pdf",
           file_size_bytes |-> 2048, analysis_data |-> "{'scenes': 1}",
           processing_time_seconds |-> 5, api_calls_used |-> 1]}

\* values of the status_filter and search query parameters
StatusFilters == {"None", "completed", "failed"}
SearchTerms == {"None", "SCRIPT"}

\* values of the limit query parameter (ge=1, le=1000)
Limits == (1..MaxLimit) \cup {10}

\* the arguments of create_analyzed_script with original_filename passed as sent
save_arguments_as_sent(body) ==
    [filename |-> body.filename,
     original_filename |-> body.original_filename,
     file_size_bytes |-> body.file_size_bytes,
     analysis_data |-> body.analysis_data,
     processing_time |-> body.processing_time_seconds,
     api_calls_used |-> body.api_calls_used]

\* the arguments of create_analyzed_script with the filename as original_filename
save_arguments_filename_only(body) ==
    [filename |-> body.filename,
     original_filename |-> body.filename,
     file_size_bytes |-> body.file_size_bytes,
     analysis_data |-> body.analysis_data,
     processing_time |-> body.processing_time_seconds,
     api_calls_used |-> body.api_calls_used]

\* api_2.py lines 241-249: the arguments of create_analyzed_script
save_arguments(body) ==
    [filename |-> body.filename,
     original_filename |-> Or(body.original_filename, body.filename),
     file_size_bytes |-> body.file_size_bytes,
     analysis_data |-> body.analysis_data,
     processing_time |-> body.processing_time_seconds,
     api_calls_used |-> body.api_calls_used]

\* AnalyzedScript.to_dict (database/models.py): every column of the record
to_dict(r) ==
    [id |-> r.id, filename |-> r.filename, original_filename |-> r.original_filename,
     file_size_bytes |-> r.file_size_bytes, analysis_data |-> r.analysis_data,
     processing_time_seconds |-> r.processing_time_seconds,
     api_calls_used |-> r.api_calls_used, status |-> r.status,
     created_at |-> "T" \o ToString(r.created_at)]

\* AnalyzedScript.to_summary_dict (database/models.py): the columns without the payload
to_summary_dict(r) ==
    [id |-> r.id, filename |-> r.filename, original_filename |-> r.original_filename,
     file_size_bytes |-> r.file_size_bytes, status |-> r.status,
     created_at |-> "T" \o ToString(r.created_at)]

\* AnalyzedScriptService.get_analyzed_script_by_id: the records with this id
get_analyzed_script_by_id(records, id) == {r \in records : r.id = id}

RECURSIVE newest_first(_)
\* order_by created_at, descending
newest_first(records) ==
    IF records = {} THEN <<>>
    ELSE LET r == CHOOSE x \in records : \A y \in records : y.created_at <= x.created_at
         IN  <<r>> \o newest_first(records \ {r})

\* .offset(skip).limit(limit)
page(scripts, skip, limit) == SubSeq(scripts, skip + 1, Min(Len(scripts), skip + limit))

\* AnalyzedScriptService.search_scripts: filename matches the term, any case
search_scripts(records, search_term, skip, limit) ==
    page(newest_first({r \in records : Contains(Lower(r.filename), Lower(search_term))}),
         skip, limit)

\* AnalyzedScriptService.get_scripts_by_status
get_scripts_by_status(records, status, skip, limit) ==
    page(newest_first({r \in records : r.status = status}), skip, limit)

\* AnalyzedScriptService.get_all_analyzed_scripts
get_all_analyzed_scripts_of(records, skip, limit) == page(newest_first(records), skip, limit)

\* AnalyzedScriptService.get_scripts_count
get_scripts_count(records, status) ==
    Cardinality(IF status = "None" THEN records ELSE {r \in records : r.status = status})

\* the pagination block with has_more true up to and including the last record
pagination_inclusive(total_count, skip, limit, returned) ==
    [total |-> total_count, skip |-> skip, limit |-> limit, returned |-> returned,
     has_more |-> (skip + returned) <= total_count]

\* api.py lines 241-247: the pagination block of the list response
pagination(total_count, skip, limit, returned) ==
    [total |-> total_count, skip |-> skip, limit |-> limit, returned |-> returned,
     has_more |-> (skip + returned) < total_count]

\* the except clauses of a table endpoint with except Exception first
endpoint_exception_generic_first(exc, prefix) == error_response(500, prefix \o exc.msg)

\* the except clauses of get_analyzed_script and delete_analyzed_script: an
\* HTTPException is raised again, any other exception becomes a 500
endpoint_exception(exc, prefix) ==
    IF exc.type = "HTTPException"
    THEN error_response(exc.status_code, exc.msg)
    ELSE error_response(500, prefix \o exc.msg)

store_unchanged == UNCHANGED <<pc, api, save_to_db, temp_file_path, files, graph_vars,
                               timed_out, persistence, conc_vars>>

store_request == pc = "idle" /\ nreq < MaxStoreRequests /\ nreq' = nreq + 1

\* POST /save-analysis (api_2.py lines 222-277); save_ok: the persistence call
\* returns, or raises
save_analysis_to_database(body, save_ok) ==
    /\ store_request
    /\ request' = [endpoint |-> "save-analysis", body |-> body]
    /\ IF save_ok
       THEN LET a == save_arguments(body)
                saved_script == create_analyzed_script(next_id, a.filename,
                                    a.original_filename, a.file_size_bytes,
                                    a.analysis_data, a.processing_time, a.api_calls_used)
            IN  /\ db' = db \cup {saved_script}
                /\ next_id' = next_id + 1
                /\ submitted' = Put(submitted, saved_script.id,
                                     [body |-> body, deleted |-> FALSE])
                /\ response' =
                      [status_code |-> 201,
                       content |-> [success |-> "True",
                                    message |-> "Analysis saved to database successfully",
                                    database_id |-> saved_script.id,
                                    saved_at |-> "T" \o ToString(saved_script.created_at),
                                    metadata |-> to_summary_dict(saved_script)]]
       ELSE /\ response' = error_response(500,
                              "Failed to save analysis to database: connection refused")
            /\ UNCHANGED <<db, next_id, submitted>>
    /\ store_unchanged

\* GET /analyzed-scripts/{script_id} (api.py lines 256-279, api_2.py lines 337-360)
get_analyzed_script(script_id) ==
    /\ store_request
    /\ request' = [endpoint |-> "get", id |-> script_id]
    /\ LET script == get_analyzed_script_by_id(db, script_id)
       IN  response' =
              IF script = {}
              THEN endpoint_exception(HTTPException(404, "Analyzed script not found"),
                                      "Failed to retrieve script: ")
              ELSE [status_code |-> 200,
                    content |-> [success |-> "True",
                                 data |-> to_dict(CHOOSE r \in script : TRUE),
                                 message |-> "Script retrieved successfully"]]
    /\ UNCHANGED <<db, next_id, submitted>>
    /\ store_unchanged

\* DELETE /analyzed-scripts/{script_id} (api.py lines 282-304, api_2.py lines 363-385)
delete_analyzed_script(script_id) ==
    /\ store_request
    /\ request' = [endpoint |-> "delete", id |-> script_id]
    /\ LET deleted == get_analyzed_script_by_id(db, script_id) # {}
       IN  /\ db' = {r \in db : r.id # script_id}
           /\ response' =
                 IF ~deleted
                 THEN endpoint_exception(HTTPException(404, "Analyzed script not found"),
                                         "Failed to delete script: ")
                 ELSE [status_code |-> 200,
                       content |-> [success |-> "True",
                                    message |-> "Analyzed script " \o ToString(script_id)
                                                   \o " deleted successfully"]]
    /\ submitted' = IF script_id \in DOMAIN submitted
                    THEN Put(submitted, script_id,
                             [submitted[script_id] EXCEPT !.deleted = TRUE])
                    ELSE submitted
    /\ UNCHANGED next_id
    /\ store_unchanged

\* GET /analyzed-scripts (api.py lines 199-253, api_2.py lines 280-334)
get_all_analyzed_scripts(skip, limit, status_filter, search) ==
    /\ store_request
    /\ request' = [endpoint |-> "list", skip |-> skip, limit |-> limit,
                   status_filter |-> status_filter, search |-> search]
    /\ LET scripts ==
              IF Truthy(search) THEN search_scripts(db, search, skip, limit)
              ELSE IF Truthy(status_filter)
              THEN get_scripts_by_status(db, status_filter, skip, limit)
              ELSE get_all_analyzed_scripts_of(db, skip, limit)
           total_count ==
              IF Truthy(search) THEN Len(scripts)
              ELSE IF Truthy(status_filter) THEN get_scripts_count(db, status_filter)
              ELSE get_scripts_count(db, "None")
       IN  response' =
              [status_code |-> 200,
               content |-> [success |-> "True",
                            data |-> [i \in 1..Len(scripts) |-> to_summary_dict(scripts[i])],
                            pagination |-> pagination(total_count, skip, limit, Len(scripts)),
                            search_term |-> search]]
    /\ UNCHANGED <<db, next_id, submitted>>
    /\ store_unchanged

StoreNext ==
    \/ \E body \in SaveBodies, save_ok \in BOOLEAN : save_analysis_to_database(body, save_ok)
    \/ \E script_id \in 1..MaxStoreRequests : get_analyzed_script(script_id)
    \/ \E script_id \in 1..MaxStoreRequests : delete_analyzed_script(script_id)
    \/ \E skip \in 0..MaxSkip, limit \in Limits, status_filter \in StatusFilters,
          search \in SearchTerms :
          get_all_analyzed_scripts(skip, limit, status_filter, search)

\* The service handling requests to the endpoints of the analyzed_scripts table
StoreSpec == Init /\ [][StoreNext]_vars

-----------------------------------------------------------------------------
(* Properties of the endpoints of the analyzed_scripts table *)

\* a GET of an identifier that POST /save-analysis handed out and that no DELETE
\* was requested for
fetched_saved ==
    /\ request.endpoint = "get"
    /\ request.id \in DOMAIN submitted
    /\ ~submitted[request.id].deleted

\* the fields of the fetched record other than original_filename equal the submitted ones
same_but_original_filename(got, sent) ==
    /\ got.filename = sent.filename
    /\ got.file_size_bytes = sent.file_size_bytes
    /\ got.analysis_data = sent.analysis_data
    /\ got.processing_time_seconds = sent.processing_time_seconds
    /\ got.api_calls_used = sent.api_calls_used

C14_NotFoundIffAbsent ==
    [][(nreq' = nreq + 1 /\ request'.endpoint \in {"get", "delete"}) =>
          LET id == request'.id
              present == \E r \in db : r.id = id
          IN  /\ (response'.status_code = 404) = ~present
              /\ present => response'.status_code = 200
              /\ request'.endpoint = "get" => db' = db
              /\ (request'.endpoint = "delete" /\ ~present) => db' = db
              /\ (request'.endpoint = "delete" /\ present) =>
                    /\ db' \subseteq db
                    /\ db \ db' = {r \in db : r.id = id}
                    /\ Cardinality(db \ db') = 1
              /\ (id \in DOMAIN submitted /\ submitted[id].deleted) =>
                    response'.status_code = 404]_vars

\* a second delete of a record is answered 404 while another record is in the table
C14_Witness ==
    /\ request.endpoint = "delete"
    /\ response.status_code = 404
    /\ request.id \in DOMAIN submitted
    /\ db # {}
    /\ \A r \in db : r.id # request.id

\* C15: on an empty table GET /analyzed-scripts returns an empty page with
\* total = 0, returned = 0 and has_more false, for every skip and limit and with
\* or without a status filter or a search term.
C15_EmptyStoreEmptyPage ==
    (request.endpoint = "list" /\ db = {}) =>
        /\ response.status_code = 200
        /\ response.content.data = <<>>
        /\ response.content.pagination.total = 0
        /\ response.content.pagination.returned = 0
        /\ response.content.pagination.has_more = FALSE

\* the table was emptied by a delete and listed with skip=0, limit=10 and a search term
C15_Witness ==
    /\ request.endpoint = "list"
    /\ db = {}
    /\ DOMAIN submitted # {}
    /\ request.skip = 0
    /\ request.limit = 10
    /\ request.search = "SCRIPT"
    /\ response.content.pagination.has_more = FALSE

-----------------------------------------------------------------------------
(* Workflow runs of concurrent requests (api.py lines 109-114) *)

\* every run is handed the reference of one mapping shared by all requests
shared_mapping(h) == 1

\* main.run_optimized_script_analysis builds a new state mapping for the request:
\* the reference of the mapping a new run gets, given the mappings that exist
fresh_mapping(h) == Len(h) + 1

\* how the agent invocation of a run can end
Outcomes == {Returned(r) : r \in Results} \cup {Raised(m) : m \in Messages \cup {NotCallable}}

\* another run is between its first node and END
others_running(i) == \E j \in 1..Len(runs) : j # i /\ runs[j].gpc # "END"

run_unchanged == UNCHANGED <<pc, api, graph_vars, save_to_db, temp_file_path, files,
                             response, timed_out, db, next_id, nreq, store_vars>>

\* a request arrives while others are being analysed: its run starts on its own mapping
run_starts(s) ==
    /\ Len(runs) < MaxRuns
    /\ LET ref == fresh_mapping(heap)
       IN  /\ heap' = IF ref \in 1..Len(heap) THEN [heap EXCEPT ![ref] = s]
                      ELSE Append(heap, s)
           /\ runs' = Append(runs, [gpc |-> "analyst_agent", ref |-> ref, start |-> s,
                                    outcome |-> NoOutcome, overlapped |-> FALSE])
    /\ run_unchanged

\* a step of run i that takes it to node g with its mapping written as m
run_step(i, g, m, outcome) ==
    /\ heap' = [heap EXCEPT ![runs[i].ref] = m]
    /\ runs' = [runs EXCEPT ![i].gpc = g, ![i].outcome = outcome,
                            ![i].overlapped = @ \/ others_running(i)]
    /\ run_unchanged

\* analyst_agent_node of run i, the agent invocation ending as outcome
run_analyst_agent(i, outcome) ==
    /\ i \in 1..Len(runs)
    /\ runs[i].gpc = "analyst_agent"
    /\ LET st == heap[runs[i].ref]
           node == analyst_agent_node(st, outcome)
       IN  run_step(i, IF node.raised THEN "error" ELSE edges["analyst_agent"],
                    IF node.raised THEN st ELSE Merge(st, node.state), outcome)

\* human_feedback_node of run i
run_human_feedback(i) ==
    /\ i \in 1..Len(runs)
    /\ runs[i].gpc = "human_feedback"
    /\ LET st == heap[runs[i].ref]
       IN  run_step(i, "should_continue_or_end", Merge(st, human_feedback_node(st)),
                    runs[i].outcome)

\* the conditional edge of run i
run_route(i) ==
    /\ i \in 1..Len(runs)
    /\ runs[i].gpc = "should_continue_or_end"
    /\ LET c == should_continue_or_end(heap[runs[i].ref])
       IN  run_step(i, IF c.failed THEN "error" ELSE resolve(c.ret), c.state,
                    runs[i].outcome)

ConcNext ==
    \/ \E s \in FreshStates(temp_name(Len(runs) + 1)) : run_starts(s)
    \/ \E i \in 1..MaxRuns, outcome \in Outcomes : run_analyst_agent(i, outcome)
    \/ \E i \in 1..MaxRuns : run_human_feedback(i)
    \/ \E i \in 1..MaxRuns : run_route(i)

\* Requests analysed at the same time, their node executions interleaved
ConcSpec == Init /\ [][ConcNext]_vars

\* the state a run reaches alone from state s with the agent invocation ending as outcome
solo(s, outcome) ==
    LET a == Merge(s, analyst_agent_node(s, outcome).state)
    IN  Merge(a, human_feedback_node(a))

\* C16: runs of concurrent requests do not interfere: whatever the interleaving of
\* their node executions, a step of one run leaves the mapping of every other run
\* as it is, and the state a run ends with is the state it reaches alone from
\* the same start with the same agent outcome.
C16_RunsDoNotInterfere ==
    [][/\ \A i \in 1..Len(runs) :
             runs'[i] = runs[i] => heap'[runs[i].ref] = heap[runs[i].ref]
       /\ \A i \in 1..Len(runs') :
             runs'[i].gpc = "END" =>
                heap'[runs'[i].ref] = solo(runs'[i].start, runs'[i].outcome)]_vars

\* two runs whose node executions overlapped both reached END, one failed and one not
C16_Witness ==
    /\ Len(runs) = 2
    /\ runs[1].gpc = "END" /\ runs[2].gpc = "END"
    /\ runs[1].overlapped /\ runs[2].overlapped
    /\ runs[1].outcome.kind = "raise"
    /\ runs[2].outcome.kind = "result"
    /\ heap[runs[1].ref]["pdf_path"] # heap[runs[2].ref]["pdf_path"]

-----------------------------------------------------------------------------
(* Properties of the temporary file and of the list response *)

\* C21: POST /analyze-script leaves no temporary file behind: when the handler
\* has answered, on whatever path, the temporary file created for the upload
\* is no longer on disk.
C21_NoTempFileLeft ==
    (pc = "responded" /\ request.endpoint = "analyze-script") =>
        temp_name(nreq) \notin files

\* the records a query of GET /analyzed-scripts is about: those matching the
\* search term, else those with the status, else all
matching(records, status_filter, search) ==
    IF Truthy(search)
    THEN {r \in records : Contains(Lower(r.filename), Lower(search))}
    ELSE IF Truthy(status_filter) THEN {r \in records : r.status = status_filter}
    ELSE records

\* C22: in the response of GET /analyzed-scripts total is the number of all
\* stored records matching the query, whatever skip and limit are, and has_more
\* is true exactly when matching records lie beyond position skip + returned,
\* on the unfiltered, the status-filter and the search path.
C22_TotalCountsAllMatching ==
    request.endpoint = "list" =>
        LET p == response.content.pagination
            n == Cardinality(matching(db, request.status_filter, request.search))
        IN  /\ p.total = n
            /\ p.has_more = (request.skip + p.returned < n)

====
